---- MODULE Spec2Model ----
(***************************************************************************)
(* Poisson sampling of rocRAND's device API (rocrand_poisson.h): the four  *)
(* samplers, the two dispatch policies and the four-sample batch call, as  *)
(* a state machine over a generator state that delivers one draw per step. *)
(***************************************************************************)
EXTENDS Integers, Sequences, FiniteSets, TLC

(***************************************************************************)
(* double.  A double is modelled as a binary floating-point number         *)
(* m * 2^e with a signed mantissa of MantBits bits (normalised:            *)
(* 2^(MantBits-1) <= |m| < 2^MantBits, or m = 0 and e = 0), rounded to     *)
(* nearest after every operation and flushed to zero below 2^MinExp, the   *)
(* smallest positive double.  The mantissa is narrower than the 53 bits of *)
(* the hardware type so that every intermediate product fits a 32-bit      *)
(* integer; the exponent range is the hardware's.                          *)
(***************************************************************************)
MantBits == 15

MinExp == -1074

\* Pow2[i] = 2^i for i in 0..30.
Pow2 ==
    [i \in 0..30 |->
        <<1, 2, 4, 8, 16, 32, 64, 128, 256, 512, 1024, 2048, 4096, 8192, 16384, 32768,
          65536, 131072, 262144, 524288, 1048576, 2097152, 4194304, 8388608, 16777216,
          33554432, 67108864, 134217728, 268435456, 536870912, 1073741824>>[i + 1]]

Abs(v) == IF v < 0 THEN -v ELSE v

Sgn(v) == IF v < 0 THEN -1 ELSE IF v > 0 THEN 1 ELSE 0

\* Number of bits of v >= 0 (0 for v = 0); v < 2^30.
BitLen(v) ==
    IF v < 32768
    THEN IF v < 128
         THEN IF v < 8
              THEN IF v < 2 THEN v ELSE IF v < 4 THEN 2 ELSE 3
              ELSE IF v < 32 THEN (IF v < 16 THEN 4 ELSE 5) ELSE IF v < 64 THEN 6 ELSE 7
         ELSE IF v < 2048
              THEN IF v < 512 THEN (IF v < 256 THEN 8 ELSE 9) ELSE IF v < 1024 THEN 10 ELSE 11
              ELSE IF v < 8192 THEN (IF v < 4096 THEN 12 ELSE 13)
                   ELSE IF v < 16384 THEN 14 ELSE 15
    ELSE IF v < 8388608
         THEN IF v < 524288
              THEN IF v < 131072 THEN (IF v < 65536 THEN 16 ELSE 17)
                   ELSE IF v < 262144 THEN 18 ELSE 19
              ELSE IF v < 2097152 THEN (IF v < 1048576 THEN 20 ELSE 21)
                   ELSE IF v < 4194304 THEN 22 ELSE 23
         ELSE IF v < 134217728
              THEN IF v < 33554432 THEN (IF v < 16777216 THEN 24 ELSE 25)
                   ELSE IF v < 67108864 THEN 26 ELSE 27
              ELSE IF v < 536870912 THEN (IF v < 268435456 THEN 28 ELSE 29) ELSE 30

Zero == [m |-> 0, e |-> 0]

\* The double nearest to v * 2^e, for an integer |v| < 2^30.
Normalize(v, e) ==
    LET a  == Abs(v)
        bl == BitLen(a)
    IN  IF a = 0 THEN Zero
        ELSE IF bl <= MantBits
        THEN IF e + bl - 1 < MinExp THEN Zero
             ELSE [m |-> v * Pow2[MantBits - bl], e |-> e - (MantBits - bl)]
        ELSE LET s  == bl - MantBits
                 q  == (a + Pow2[s - 1]) \div Pow2[s]
                 q2 == IF q = Pow2[MantBits] THEN Pow2[MantBits - 1] ELSE q
                 s2 == IF q = Pow2[MantBits] THEN s + 1 ELSE s
             IN  IF e + bl - 1 < MinExp THEN Zero
                 ELSE [m |-> Sgn(v) * q2, e |-> e + s2]

\* (double) of an integer |n| < 2^30.
FromInt(n) == Normalize(n, 0)

\* The double n / 2^s for integers n and s >= 0 (exact when n fits the mantissa).
Frac(n, s) == Normalize(n, -s)

dneg(a) == [m |-> -a.m, e |-> a.e]

dadd(a, b) ==
    IF a.m = 0 THEN b
    ELSE IF b.m = 0 THEN a
    ELSE LET hi == IF a.e >= b.e THEN a ELSE b
             lo == IF a.e >= b.e THEN b ELSE a
             d  == hi.e - lo.e
         IN  IF d > MantBits THEN hi
             ELSE Normalize(hi.m * Pow2[d] + lo.m, lo.e)

dsub(a, b) == dadd(a, dneg(b))

dmul(a, b) == Normalize(a.m * b.m, a.e + b.e)

\* a / b for b # 0.
ddiv(a, b) ==
    LET n == Abs(a.m) * Pow2[MantBits]
        d == Abs(b.m)
        q == n \div d
        r == n % d
        qr == IF 2 * r >= d THEN q + 1 ELSE q
    IN  Normalize(Sgn(a.m) * Sgn(b.m) * qr, a.e - b.e - MantBits)

\* The sign of a - b (-1, 0 or 1), from the signs, exponents and mantissas.
dcmp(a, b) ==
    IF Sgn(a.m) # Sgn(b.m) THEN Sgn(Sgn(a.m) - Sgn(b.m))
    ELSE IF a.e # b.e THEN (IF a.e > b.e THEN Sgn(a.m) ELSE -Sgn(a.m))
    ELSE Sgn(a.m - b.m)

dlt(a, b) == dcmp(a, b) < 0

dle(a, b) == dcmp(a, b) <= 0

dgt(a, b) == dcmp(a, b) > 0

\* floor(a) as an integer, for |a| < 2^30.
floor(a) ==
    IF a.e >= 0 THEN a.m * Pow2[a.e]
    ELSE IF -a.e > 30 THEN (IF a.m < 0 THEN -1 ELSE 0)
    ELSE a.m \div Pow2[-a.e]

Half == Frac(1, 1)

\* round(a): to the nearest integer, halves away from zero.
round(a) == IF a.m >= 0 THEN floor(dadd(a, Half)) ELSE -floor(dadd(dneg(a), Half))

\* Fixed-point helpers for exp and log: integers in units of 2^-FixBits.
FixBits == 14

FixOne == Pow2[FixBits]

\* ln 2 in units of 2^-14.
Ln2Fix == 11357

FixMul(p, q) == (p * q + FixOne \div 2) \div FixOne

\* a in units of 2^-14, for |a| < 2^16.
ToFix(a) ==
    LET s == a.e + FixBits
    IN  IF s >= 0 THEN a.m * Pow2[s]
        ELSE IF -s > 30 THEN 0
        ELSE (a.m + Pow2[-s - 1]) \div Pow2[-s]

\* e^r for 0 <= r < ln 2, in fixed point (Taylor series to the 7th power).
ExpFix(r) ==
    LET t7 == FixOne + r \div 7
        t6 == FixOne + FixMul(r, t7) \div 6
        t5 == FixOne + FixMul(r, t6) \div 5
        t4 == FixOne + FixMul(r, t5) \div 4
        t3 == FixOne + FixMul(r, t4) \div 3
        t2 == FixOne + FixMul(r, t3) \div 2
    IN  FixOne + FixMul(r, t2)

\* ln 2 in units of 2^-20, for the range reduction of exp.
Ln2Fine == 726817

\* exp(a) for |a| < 2^11: e^a = 2^q * e^r with a = q ln 2 + r, 0 <= r < ln 2.
exp(a) ==
    LET f == ToFix(a) * 64
        q == f \div Ln2Fine
        r == (f - q * Ln2Fine) \div 64
    IN  Normalize(ExpFix(r), q - FixBits)

\* ln f for a fixed-point 1/2 <= f < 1: 2 atanh((f - 1) / (f + 1)).
LnFix(f) ==
    LET s  == ((f - FixOne) * FixOne) \div (f + FixOne)
        s2 == FixMul(s, s)
        t9 == FixOne \div 9
        t7 == FixOne \div 7 + FixMul(s2, t9)
        t5 == FixOne \div 5 + FixMul(s2, t7)
        t3 == FixOne \div 3 + FixMul(s2, t5)
        t1 == FixOne + FixMul(s2, t3)
    IN  2 * FixMul(s, t1)

\* log(a) for a > 0.
log(a) ==
    LET f == a.m \div Pow2[MantBits - FixBits]
    IN  Normalize((a.e + MantBits) * Ln2Fix + LnFix(f), -FixBits)

RECURSIVE ISqrt(_, _, _)
\* The integer square root of v, by bisection on lo..hi.
ISqrt(v, lo, hi) ==
    IF lo >= hi THEN lo
    ELSE LET mid == (lo + hi + 1) \div 2
         IN  IF mid * mid <= v THEN ISqrt(v, mid, hi) ELSE ISqrt(v, lo, mid - 1)

\* sqrt(a) for a >= 0.
sqrt(a) ==
    IF a.m = 0 THEN Zero
    ELSE IF a.e % 2 = 0
    THEN Normalize(ISqrt(a.m * Pow2[14], 0, 32767), (a.e - 14) \div 2)
    ELSE Normalize(ISqrt(a.m * Pow2[15], 0, 32767), (a.e - 15) \div 2)

\* lgamma(z) for z >= 3, by Stirling's series:
\* (z - 1/2) ln z - z + ln(2 pi) / 2 + 1 / (12 z).
HalfLn2Pi == Frac(15056, 14)

lgamma(z) ==
    dadd(dadd(dsub(dmul(dsub(z, Half), log(z)), z), HalfLn2Pi),
         ddiv(FromInt(1), dmul(FromInt(12), z)))

(***************************************************************************)
(* Bounds of the model.                                                    *)
(***************************************************************************)
\* Draws the generator delivers in one behaviour.
MaxTape == 4

\* API calls of the first run (the second run replays them).
MaxCalls == 1

\* Inner-loop iterations of poisson_itr explored after x has underflowed to 0.
MaxSpin == 2

\* Inner-loop iterations of poisson_itr taken in one step.
MaxInner == 4096

(***************************************************************************)
(* Inputs.  Lambda ranges over doubles on both sides of every threshold of *)
(* the dispatchers and of poisson_itr's chunk size.                        *)
(***************************************************************************)
Lambdas ==
    { Frac(1, 1), Frac(127, 1), FromInt(64), FromInt(500), Frac(1999, 1),
      FromInt(1000), FromInt(4000), Frac(8001, 1) }

Engines == {"philox4x32_10", "mrg32k3a", "xorwow", "mtgp32", "sobol32"}

(***************************************************************************)
(* The generator state and its two draw primitives (declared in            *)
(* rocrand_uniform.h and rocrand_normal.h).  A state is a                  *)
(* position in the engine's output stream; the stream is fixed but         *)
(* unknown, so a word is chosen when its position is first read and kept   *)
(* on the tape for every later read of that position.                      *)
(***************************************************************************)
RawWords == {0, 1, 2}

\* rocrand_uniform_double on the raw word r: a value in (0, 1).
rocrand_uniform_double(r) ==
    CASE r = 0 -> Frac(1, 24)
      [] r = 1 -> Frac(1, 1)
      [] r = 2 -> Frac(15, 4)

\* rocrand_normal_double on the raw word r.
rocrand_normal_double(r) ==
    CASE r = 0 -> FromInt(-32)
      [] r = 1 -> Zero
      [] r = 2 -> Frac(3, 1)

\* The words position p of tape t can deliver.
RawAt(t, p) == IF p < Len(t) THEN {t[p + 1]} ELSE RawWords

\* The tape after position p delivered word r.
TapeAfter(t, p, r) == IF p < Len(t) THEN t ELSE Append(t, r)

(***************************************************************************)
(* unsigned int, as two 16-bit limbs (the value is hi * 65536 + lo).       *)
(***************************************************************************)
U32(n) == [hi |-> n \div 65536, lo |-> n % 65536]

\* 2^32 + n for -2^31 < n < 0: the conversion's result where it wraps.
WrapNeg(n) == [hi |-> 65535 - ((-n - 1) \div 65536), lo |-> 65535 - ((-n - 1) % 65536)]

\* What static_cast<unsigned int>(double) can give for a negative value: the
\* conversion is undefined there; a build either wraps modulo 2^32 or saturates.
CastModes == {"wrap", "saturate"}

VARIABLES
    engine,   \* the generator type of the state (fixed)
    cast,     \* the build's out-of-range double-to-unsigned conversion (fixed;
              \* "unknown" until the first such conversion shows it)
    tape,     \* the raw words the engine has delivered so far, by position
    pos,      \* the generator state: the number of draws consumed
    run,      \* 1: the first run; 2: the replay from a copy of the initial state
    done,     \* per run, the completed API calls
    cur,      \* the API call in progress
    smp,      \* bookkeeping of the sample in progress
    pc,       \* the sampler (and the place in it) the call is in
    frame     \* the locals of the sampler last entered

vars == <<engine, cast, tape, pos, run, done, cur, smp, pc, frame>>

lambda_threshold_small == 64

lambda_threshold_huge == 4000

One == FromInt(1)

(***************************************************************************)
(* Dispatchers.                                                            *)
(***************************************************************************)
\* The first test with <= for <: lambda = 64 goes to the small sampler.
poisson_distribution_inclusive(lambda) ==
    IF dle(lambda, FromInt(lambda_threshold_small)) THEN "small"
    ELSE IF dle(lambda, FromInt(lambda_threshold_huge)) THEN "large"
    ELSE "huge"

poisson_distribution(lambda) ==
    IF dlt(lambda, FromInt(lambda_threshold_small)) THEN "small"
    ELSE IF dle(lambda, FromInt(lambda_threshold_huge)) THEN "large"
    ELSE "huge"

\* The test with <= for <: lambda = 1000 goes to poisson_itr.
_poisson_distribution_inclusive(lambda) ==
    IF dle(lambda, FromInt(1000)) THEN "itr" ELSE "huge"

_poisson_distribution(lambda) ==
    IF dlt(lambda, FromInt(1000)) THEN "itr" ELSE "huge"

\* The overload of rocrand_poisson for the state's type.
rocrand_poisson(lambda) ==
    IF engine \in {"philox4x32_10", "mrg32k3a", "xorwow"}
    THEN poisson_distribution(lambda)
    ELSE _poisson_distribution(lambda)

(***************************************************************************)
(* The locals of each sampler at the point its first draw is made.         *)
(***************************************************************************)
\* The product declared static: it keeps the value the last call left.
SmallEntryStale(lambda) ==
    [limit |-> exp(dneg(lambda)), k |-> 0,
     product |-> IF "product" \in DOMAIN frame THEN frame.product ELSE One]

SmallEntry(lambda) ==
    [limit |-> exp(dneg(lambda)), k |-> 0, product |-> One]

ROCRAND_PI_DOUBLE == Frac(25736, 13)

LargeEntry(lambda) ==
    LET c    == dsub(Frac(25133, 15), ddiv(Frac(27525, 13), lambda))
        beta == ddiv(ROCRAND_PI_DOUBLE, sqrt(dmul(FromInt(3), lambda)))
    IN  [c |-> c, beta |-> beta, alpha |-> dmul(beta, lambda),
         k |-> dsub(dsub(log(c), lambda), log(beta)),
         log_lambda |-> log(lambda),
         u |-> Zero, x |-> Zero, n |-> 0, v |-> Zero, lhs |-> Zero, rhs |-> Zero,
         drawn |-> <<>>]

HugeEntry(lambda) == [n |-> Zero, r |-> 0]

ItrEntry(lambda) ==
    [L |-> Zero, x |-> One, y |-> One, k |-> 0, pow |-> 0,
     u |-> Zero, upow |-> Zero, ex |-> Zero, Lexp |-> <<>>]

Entry(s, lambda) ==
    CASE s = "small" -> SmallEntry(lambda)
      [] s = "large" -> LargeEntry(lambda)
      [] s = "huge"  -> HugeEntry(lambda)
      [] s = "itr"   -> ItrEntry(lambda)

\* Bookkeeping of a sample that starts at position p in sampler s.
NewSample(s, p) ==
    [invoked |-> <<s>>, entry |-> p, nu |-> 0, nz |-> 0, r1 |-> 0, r2 |-> 0, spin |-> 0]

NoCall == [api |-> "none", lambda |-> Zero, pos0 |-> 0, samples |-> <<>>]

NoSample == [invoked |-> <<>>, entry |-> 0, nu |-> 0, nz |-> 0, r1 |-> 0, r2 |-> 0, spin |-> 0]

Width(api) == IF api = "poisson4" THEN 4 ELSE 1

\* The initialisers evaluated right to left, as function arguments may be.
EvalOrderReversed == <<4, 3, 2, 1>>

\* rocrand_poisson4's braced initialiser: EvalOrder[j] is the component
\* (1..4 for x, y, z, w) the j-th evaluated call initialises.
EvalOrder == <<1, 2, 3, 4>>

\* The value an API call returns, from its samples in evaluation order.
Result(api, ss) ==
    IF api = "poisson4"
    THEN [i \in 1..4 |-> ss[CHOOSE j \in 1..4 : EvalOrder[j] = i].ret]
    ELSE ss[1].ret

RECURSIVE Flat(_)
\* The samples of a run's calls, in the order they were drawn.
Flat(calls) == IF calls = <<>> THEN <<>> ELSE Head(calls).samples \o Flat(Tail(calls))

RECURSIVE FlatLambdas(_)
\* The lambda of every sample of a run.
FlatLambdas(calls) ==
    IF calls = <<>> THEN <<>>
    ELSE [i \in 1..Len(Head(calls).samples) |-> Head(calls).lambda] \o FlatLambdas(Tail(calls))

\* The lambdas an API call of width w may be made with: any in the first run;
\* in the replay, the one the first run used for the same samples.
CallLambdas(w) ==
    IF run = 1
    THEN IF Len(done[1]) < MaxCalls THEN Lambdas ELSE {}
    ELSE LET f == FlatLambdas(done[1])
             n == Len(Flat(done[2]))
         IN  IF n + w <= Len(f)
             THEN {l \in Lambdas : \A i \in 1..w : f[n + i] = l}
             ELSE {}

Init ==
    /\ engine \in Engines
    /\ cast = "unknown"
    /\ tape = <<>>
    /\ pos = 0
    /\ run = 1
    /\ done = [r \in 1..2 |-> <<>>]
    /\ cur = NoCall
    /\ smp = NoSample
    /\ pc = "idle"
    /\ frame = [k |-> 0]

\* A sample returns r (converted from val) with the state at position p, the
\* tape t, the locals f and the bookkeeping g: the API call returns, or (in
\* rocrand_poisson4) the next initialiser is evaluated.
Finish(r, val, p, t, f, g) ==
    LET rec == [sampler |-> g.invoked, ret |-> r, val |-> val, entry |-> g.entry,
                end |-> p, nu |-> g.nu, nz |-> g.nz, r1 |-> g.r1, r2 |-> g.r2]
        ss  == Append(cur.samples, rec)
        s   == poisson_distribution(cur.lambda)
    IN  /\ pos' = p
        /\ tape' = t
        /\ IF Len(ss) = Width(cur.api)
           THEN /\ done' = [done EXCEPT ![run] =
                     Append(@, [api |-> cur.api, lambda |-> cur.lambda, pos0 |-> cur.pos0,
                                samples |-> ss, out |-> Result(cur.api, ss), pos1 |-> p])]
                /\ cur' = NoCall
                /\ smp' = NoSample
                /\ pc' = "idle"
                /\ frame' = f
           ELSE /\ done' = done
                /\ cur' = [cur EXCEPT !.samples = ss]
                /\ smp' = NewSample(s, p)
                /\ pc' = s
                /\ frame' = Entry(s, cur.lambda)
        /\ UNCHANGED <<engine, run>>

(***************************************************************************)
(* The API.                                                                *)
(***************************************************************************)
\* unsigned int rocrand_poisson(state, lambda), any of the five state types.
Poisson ==
    /\ pc = "idle"
    /\ \E lambda \in CallLambdas(1) :
          LET s == rocrand_poisson(lambda)
          IN  /\ cur' = [api |-> "poisson", lambda |-> lambda, pos0 |-> pos, samples |-> <<>>]
              /\ smp' = NewSample(s, pos)
              /\ pc' = s
              /\ frame' = Entry(s, lambda)
    /\ UNCHANGED <<engine, cast, tape, pos, run, done>>

\* uint4 rocrand_poisson4(rocrand_state_philox4x32_10 *, lambda).
Poisson4 ==
    /\ pc = "idle"
    /\ engine = "philox4x32_10"
    /\ \E lambda \in CallLambdas(4) :
          LET s == poisson_distribution(lambda)
          IN  /\ cur' = [api |-> "poisson4", lambda |-> lambda, pos0 |-> pos, samples |-> <<>>]
              /\ smp' = NewSample(s, pos)
              /\ pc' = s
              /\ frame' = Entry(s, lambda)
    /\ UNCHANGED <<engine, cast, tape, pos, run, done>>

\* The caller takes a copy of the initial generator state and starts over.
Replay ==
    /\ pc = "idle"
    /\ run = 1
    /\ done[1] # <<>>
    /\ run' = 2
    /\ pos' = 0
    /\ UNCHANGED <<engine, cast, tape, done, cur, smp, pc, frame>>

(***************************************************************************)
(* poisson_distribution_small: one iteration of the do-while loop.         *)
(***************************************************************************)
\* The loop condition: another iteration follows.
SmallContinues(product, limit) == dgt(product, limit)

\* The counter returned as it is.
SmallReturnCounter(k) == k

\* What the function returns for the counter k it stopped at.
SmallReturn(k) == k - 1

poisson_distribution_small ==
    /\ pc = "small"
    /\ pos < MaxTape
    /\ \E r \in RawAt(tape, pos) :
          LET k       == frame.k + 1
              product == dmul(frame.product, rocrand_uniform_double(r))
              f       == [frame EXCEPT !.k = k, !.product = product]
              g       == [smp EXCEPT !.nu = @ + 1]
              t       == TapeAfter(tape, pos, r)
          IN  IF SmallContinues(product, frame.limit)
              THEN /\ frame' = f
                   /\ smp' = g
                   /\ pos' = pos + 1
                   /\ tape' = t
                   /\ UNCHANGED <<engine, cast, run, done, cur, pc>>
              ELSE /\ Finish(U32(SmallReturn(k)), SmallReturn(k), pos + 1, t, f, g)
                   /\ UNCHANGED cast

(***************************************************************************)
(* poisson_distribution_large: one iteration of the while (true) loop.     *)
(***************************************************************************)
log_factorial(n) ==
    IF dle(n, One) THEN Zero ELSE lgamma(dadd(n, One))

\* The candidate of an iteration whose first draw is u.
LargeX(f, u) == ddiv(dsub(f.alpha, log(ddiv(dsub(One, u), u))), f.beta)

\* The two sides of the acceptance test for the candidate x, n and the draw v.
LargeLhs(f, x, v) ==
    LET y == dsub(f.alpha, dmul(f.beta, x))
        t == dadd(One, exp(y))
    IN  dadd(y, log(ddiv(v, dmul(t, t))))

LargeRhs(f, n) ==
    dsub(dadd(f.k, dmul(FromInt(n), f.log_lambda)), log_factorial(FromInt(n)))

\* The acceptance test with its comparison turned round.
LargeAcceptsReversed(lhs, rhs) == dle(rhs, lhs)

\* The acceptance test of line 98.
LargeAccepts(lhs, rhs) == dle(lhs, rhs)

\* v drawn before the test of n, in every iteration.
LargeDrawsVAlways(n) == TRUE

\* Whether the iteration draws v: it does not when the candidate n is negative.
LargeDrawsV(n) == ~(n < 0)

poisson_distribution_large ==
    /\ pc = "large"
    /\ pos < MaxTape
    /\ \E r \in RawAt(tape, pos) :
          LET u  == rocrand_uniform_double(r)
              x  == LargeX(frame, u)
              n  == floor(dadd(x, Half))
              t1 == TapeAfter(tape, pos, r)
              f1 == [frame EXCEPT !.u = u, !.x = x, !.n = n, !.drawn = <<pos + 1>>]
          IN  IF ~LargeDrawsV(n)
              THEN /\ frame' = f1
                   /\ smp' = [smp EXCEPT !.nu = @ + 1, !.r1 = @ + 1]
                   /\ pos' = pos + 1
                   /\ tape' = t1
                   /\ UNCHANGED <<engine, cast, run, done, cur, pc>>
              ELSE /\ pos + 1 < MaxTape
                   /\ \E r2 \in RawAt(t1, pos + 1) :
                         LET v   == rocrand_uniform_double(r2)
                             lhs == LargeLhs(frame, x, v)
                             rhs == LargeRhs(frame, n)
                             t2  == TapeAfter(t1, pos + 1, r2)
                             f2  == [f1 EXCEPT !.v = v, !.lhs = lhs, !.rhs = rhs,
                                               !.drawn = <<pos + 1, pos + 2>>]
                         IN  IF LargeAccepts(lhs, rhs)
                             THEN /\ Finish(U32(n), n, pos + 2, t2, f2,
                                            [smp EXCEPT !.nu = @ + 2])
                                  /\ UNCHANGED cast
                             ELSE /\ frame' = f2
                                  /\ smp' = [smp EXCEPT !.nu = @ + 2, !.r2 = @ + 1]
                                  /\ pos' = pos + 2
                                  /\ tape' = t2
                                  /\ UNCHANGED <<engine, cast, run, done, cur, pc>>

(***************************************************************************)
(* poisson_distribution_huge.                                              *)
(***************************************************************************)
\* static_cast<unsigned int> of the integer-valued double n, in a build whose
\* out-of-range conversion behaves as c.
ToUnsigned(n, c) ==
    IF n >= 0 THEN U32(n)
    ELSE IF c = "wrap" THEN WrapNeg(n) ELSE U32(0)

\* The value poisson_distribution_huge converts, for the normal draw n.
HugeValue(lambda, n) == round(dadd(dmul(sqrt(lambda), n), lambda))

poisson_distribution_huge ==
    /\ pc = "huge"
    /\ pos < MaxTape
    /\ \E r \in RawAt(tape, pos) :
          LET n == rocrand_normal_double(r)
              v == HugeValue(cur.lambda, n)
          IN  \E c \in (IF v < 0 /\ cast = "unknown" THEN CastModes ELSE {cast}) :
                 /\ cast' = c
                 /\ Finish(ToUnsigned(v, c), v, pos + 1, TapeAfter(tape, pos, r),
                           [frame EXCEPT !.n = n, !.r = v], [smp EXCEPT !.nz = @ + 1])

(***************************************************************************)
(* poisson_itr.                                                            *)
(***************************************************************************)
\* Lines 137-144: the locals, with the one draw of the call.
poisson_itr ==
    /\ pc = "itr"
    /\ pos < MaxTape
    /\ \E r \in RawAt(tape, pos) :
          /\ frame' = [frame EXCEPT !.u = rocrand_uniform_double(r),
                                    !.upow = dadd(FromInt(frame.pow), FromInt(500)),
                                    !.ex = exp(FromInt(-500))]
          /\ tape' = TapeAfter(tape, pos, r)
    /\ pos' = pos + 1
    /\ smp' = [smp EXCEPT !.nu = @ + 1]
    /\ pc' = "itr_outer"
    /\ UNCHANGED <<engine, cast, run, done, cur>>

\* The exponent of the factor L of an outer iteration (in halves), and the factor.
ItrExponent(f, lambda) ==
    IF dgt(lambda, f.upow) THEN -1000
    ELSE floor(dmul(FromInt(2), dsub(FromInt(f.pow), lambda)))

ItrL(f, lambda) ==
    IF dgt(lambda, f.upow) THEN f.ex ELSE exp(dsub(FromInt(f.pow), lambda))

\* The draw of u moved into the outer loop: every outer iteration draws.
poisson_itr_outer_redraws ==
    /\ pc = "itr_outer"
    /\ pos < MaxTape
    /\ \E r \in RawAt(tape, pos) :
          /\ LET L == ItrL(frame, cur.lambda)
             IN  frame' = [frame EXCEPT !.L = L, !.x = dmul(@, L), !.y = dmul(@, L),
                                        !.pow = @ + 500,
                                        !.u = rocrand_uniform_double(r),
                                        !.Lexp = Append(@, ItrExponent(frame, cur.lambda))]
          /\ tape' = TapeAfter(tape, pos, r)
    /\ pos' = pos + 1
    /\ smp' = [smp EXCEPT !.nu = @ + 1]
    /\ pc' = "itr_inner"
    /\ UNCHANGED <<engine, cast, run, done, cur>>

\* Lines 146-153: the head of an outer iteration, up to the inner loop.
poisson_itr_outer ==
    /\ pc = "itr_outer"
    /\ LET L == ItrL(frame, cur.lambda)
       IN  frame' = [frame EXCEPT !.L = L, !.x = dmul(@, L), !.y = dmul(@, L),
                                  !.pow = @ + 500,
                                  !.Lexp = Append(@, ItrExponent(frame, cur.lambda))]
    /\ pc' = "itr_inner"
    /\ UNCHANGED <<engine, cast, tape, pos, run, done, cur, smp>>

\* The inner loop's condition and body (lines 154-159).
ItrInnerCond(f) == dgt(f.u, f.y)

ItrInnerBody(f, lambda) ==
    LET k == f.k + 1
        x == dmul(f.x, ddiv(lambda, FromInt(k)))
    IN  [f EXCEPT !.k = k, !.x = x, !.y = dadd(@, x)]

\* The inner loop can no longer change x or y: x has underflowed to 0.
ItrStuck(f) == f.x.m = 0 /\ ItrInnerCond(f)

RECURSIVE ItrInnerLoop(_, _, _)
\* The locals after the inner loop has run from f until its condition fails or
\* it is stuck, for at most n iterations.
ItrInnerLoop(f, lambda, n) ==
    IF n = 0 \/ ~ItrInnerCond(f) \/ ItrStuck(f) THEN f
    ELSE IF n = 1 THEN ItrInnerBody(f, lambda)
    ELSE LET h == CHOOSE g \in {ItrInnerLoop(f, lambda, n \div 2)} : TRUE
         IN  ItrInnerLoop(h, lambda, n - n \div 2)

\* Lines 154-160: the inner loop and, when it exits, the outer loop's test and
\* the return.
poisson_itr_inner ==
    /\ pc = "itr_inner"
    /\ ~ItrStuck(frame)
    /\ \E f \in {ItrInnerLoop(frame, cur.lambda, MaxInner)} :
           IF ItrInnerCond(f)
           THEN /\ frame' = f
                /\ UNCHANGED <<engine, cast, tape, pos, run, done, cur, smp, pc>>
           ELSE IF dlt(FromInt(f.pow), cur.lambda)
                THEN /\ pc' = "itr_outer"
                     /\ frame' = f
                     /\ UNCHANGED <<engine, cast, tape, pos, run, done, cur, smp>>
                ELSE /\ Finish(U32(f.k), f.k, pos, tape, f, smp)
                     /\ UNCHANGED cast

\* One more iteration of the inner loop once it is stuck: only k changes.
poisson_itr_spin ==
    /\ pc = "itr_inner"
    /\ ItrStuck(frame)
    /\ smp.spin < MaxSpin
    /\ frame' = ItrInnerBody(frame, cur.lambda)
    /\ smp' = [smp EXCEPT !.spin = @ + 1]
    /\ UNCHANGED <<engine, cast, tape, pos, run, done, cur, pc>>

Next ==
    \/ Poisson
    \/ Poisson4
    \/ Replay
    \/ poisson_distribution_small
    \/ poisson_distribution_large
    \/ poisson_distribution_huge
    \/ poisson_itr
    \/ poisson_itr_outer
    \/ poisson_itr_inner
    \/ poisson_itr_spin

Spec == Init /\ [][Next]_vars

(***************************************************************************)
(* Properties.                                                             *)
(***************************************************************************)
Standard == engine \in {"philox4x32_10", "mrg32k3a", "xorwow"}

Chunked == engine \in {"mtgp32", "sobol32"}

\* 2 * lambda as an integer, read off the double's mantissa and exponent.
TwoLambda(l) == IF l.e + 1 >= 0 THEN l.m * Pow2[l.e + 1] ELSE l.m \div Pow2[-(l.e + 1)]

\* The completed API calls of both runs.
Calls == UNION {{done[r][i] : i \in 1..Len(done[r])} : r \in 1..2}

\* Every completed sample, with the lambda it was asked for.
Samples ==
    UNION {{[lambda |-> c.lambda, s |-> c.samples[i]] : i \in 1..Len(c.samples)} : c \in Calls}
    \cup {[lambda |-> cur.lambda, s |-> cur.samples[i]] : i \in 1..Len(cur.samples)}

\* C1: under the standard policy (Philox, MRG32K3A, XORWOW) every sample is
\* drawn by exactly one sampler, which lambda alone selects: the small one
\* below 64, the large one from 64 to 4000 inclusive, the huge one above 4000.
StandardSampler(l) ==
    IF TwoLambda(l) < 128 THEN "small" ELSE IF TwoLambda(l) <= 8000 THEN "large" ELSE "huge"

StandardDispatch ==
    Standard =>
        /\ \A x \in Samples : x.s.sampler = <<StandardSampler(x.lambda)>>
        /\ cur.api # "none" =>
              /\ smp.invoked = <<StandardSampler(cur.lambda)>>
              /\ pc = StandardSampler(cur.lambda)

\* The replay has made a large-sampler call at lambda = 4000, after the first
\* run's call.
StandardDispatchReached ==
    /\ Standard
    /\ run = 2
    /\ done[2] # <<>>
    /\ done[2][1].lambda = FromInt(4000) /\ done[2][1].samples[1].sampler = <<"large">>

\* C2: under the chunked policy (MTGP32, SOBOL32) every sample is drawn by
\* exactly one sampler: poisson_itr below 1000, the huge one from 1000 on; the
\* small and large samplers are never entered.
ChunkedSampler(l) == IF TwoLambda(l) < 2000 THEN "itr" ELSE "huge"

ChunkedDispatch ==
    Chunked =>
        /\ \A x \in Samples : x.s.sampler = <<ChunkedSampler(x.lambda)>>
        /\ pc \notin {"small", "large"}
        /\ cur.api # "none" =>
              /\ smp.invoked = <<ChunkedSampler(cur.lambda)>>
              /\ pc \in (IF ChunkedSampler(cur.lambda) = "itr"
                         THEN {"itr", "itr_outer", "itr_inner"} ELSE {"huge"})

\* The replay has made a huge-sampler call at lambda = 1000, after the first
\* run's call.
ChunkedDispatchReached ==
    /\ Chunked
    /\ run = 2
    /\ done[2] # <<>>
    /\ done[2][1].lambda = FromInt(1000) /\ done[2][1].samples[1].sampler = <<"huge">>

\* C3: rocrand_poisson4 returns, in x, y, z, w, what four successive
\* rocrand_poisson calls from the same state and with the same lambda return,
\* draws the same positions for each, and leaves the same state.
FourSingles(r, i, b) ==
    /\ i + 3 <= Len(done[r])
    /\ \A j \in 0..3 : done[r][i + j].api = "poisson" /\ done[r][i + j].lambda = b.lambda
    /\ done[r][i].pos0 = b.pos0

BatchEqualsFourCalls ==
    \A b \in Calls : b.api = "poisson4" =>
        \A r \in 1..2 : \A i \in 1..Len(done[r]) : FourSingles(r, i, b) =>
            /\ b.out = [j \in 1..4 |-> done[r][i + j - 1].out]
            /\ \A j \in 1..4 : /\ b.samples[j].entry = done[r][i + j - 1].pos0
                               /\ b.samples[j].end = done[r][i + j - 1].pos1
            /\ b.pos1 = done[r][i + 3].pos1

\* A batch and four single calls from the same state, whose first and last
\* components differ.
BatchEqualsFourCallsReached ==
    \E b \in Calls : /\ b.api = "poisson4"
                     /\ b.out[1] # b.out[4]
                     /\ \E r \in 1..2 : \E i \in 1..Len(done[r]) : FourSingles(r, i, b)

\* C4: the replay from a copy of the initial state, with the same lambdas,
\* returns the same samples, consumes the same draws and passes through the
\* same states as the first run; and any two samples asked with the same
\* lambda from the same state agree, whatever was called before them.
Determinism ==
    /\ LET a == Flat(done[1])
           b == Flat(done[2]) \o cur.samples
       IN  run = 2 => \A i \in 1..Len(b) :
               /\ i <= Len(a)
               /\ b[i].ret = a[i].ret
               /\ b[i].entry = a[i].entry /\ b[i].end = a[i].end
               /\ b[i].nu = a[i].nu /\ b[i].nz = a[i].nz
    /\ \A x, y \in Samples :
           (x.lambda = y.lambda /\ x.s.entry = y.s.entry) =>
               (x.s.ret = y.s.ret /\ x.s.end = y.s.end)

\* The replay has repeated a rocrand_poisson4 call as four rocrand_poisson
\* calls, which returned samples that are not all the same.
DeterminismReached ==
    /\ run = 2
    /\ Len(done[1]) = 1 /\ done[1][1].api = "poisson4"
    /\ Len(done[2]) = 4
    /\ done[2][1].out # done[2][4].out

\* C5: poisson_itr consumes exactly one uniform draw and no normal draw: the
\* state is one position past the call's entry from the draw on, through
\* every iteration of both loops, and at the return.
ItrOneDraw ==
    /\ pc = "itr" => smp.nu = 0 /\ smp.nz = 0 /\ pos = smp.entry
    /\ pc \in {"itr_outer", "itr_inner"} =>
          smp.nu = 1 /\ smp.nz = 0 /\ pos = smp.entry + 1
    /\ \A x \in Samples : x.s.sampler = <<"itr">> =>
          x.s.nu = 1 /\ x.s.nz = 0 /\ x.s.end = x.s.entry + 1

\* A poisson_itr call that went through two outer iterations and some inner
\* ones has returned.
ItrOneDrawReached ==
    \E x \in Samples : /\ x.s.sampler = <<"itr">>
                       /\ TwoLambda(x.lambda) > 1000
                       /\ x.s.val > 0

\* C6: the value poisson_distribution_huge converts to unsigned int is never
\* negative, so the sample is that value.
HugeNeverNegative ==
    \A x \in Samples : x.s.sampler = <<"huge">> =>
        x.s.val >= 0 /\ x.s.ret = U32(x.s.val)

RECURSIVE Sum(_)
Sum(q) == IF q = <<>> THEN 0 ELSE Head(q) + Sum(Tail(q))

Min(a, b) == IF a < b THEN a ELSE b

\* C7: the i-th outer iteration of poisson_itr folds in the factor
\* exp(-min(500, lambda - 500 (i - 1))), and the exponents of a call that has
\* left the outer loop sum to -lambda (exponents counted in halves).
ItrFactors ==
    /\ pc \in {"itr_outer", "itr_inner"} =>
          \A i \in 1..Len(frame.Lexp) :
              frame.Lexp[i] = -Min(1000, TwoLambda(cur.lambda) - 1000 * (i - 1))
    /\ (pc = "idle" /\ done[run] # <<>>
          /\ done[run][Len(done[run])].samples[1].sampler = <<"itr">>) =>
          Sum(frame.Lexp) = -TwoLambda(done[run][Len(done[run])].lambda)

\* C8: poisson_itr terminates; stated on the states of the inner loop: it is
\* never in a state it cannot leave, where y is below the threshold u and the
\* term x is 0, so that no further iteration changes x or y.
ItrInnerLoopExits == ~(pc = "itr_inner" /\ ItrStuck(frame))

RECURSIVE TapeProduct(_, _)
\* The product of the uniform draws at the n positions after e.
TapeProduct(e, n) ==
    IF n = 0 THEN One ELSE dmul(TapeProduct(e, n - 1), rocrand_uniform_double(tape[e + n]))

\* C9: poisson_distribution_small consumes j >= 1 uniform draws, where j is the
\* first count at which the product of the draws is <= exp(-lambda), and
\* returns j - 1.
KnuthStopsAtFirstCrossing ==
    /\ \A x \in Samples : x.s.sampler = <<"small">> =>
          LET j == x.s.end - x.s.entry
          IN  /\ j >= 1
              /\ x.s.nu = j /\ x.s.nz = 0
              /\ x.s.ret = U32(j - 1)
              /\ dle(TapeProduct(x.s.entry, j), exp(dneg(x.lambda)))
              /\ \A i \in 1..(j - 1) : dgt(TapeProduct(x.s.entry, i), exp(dneg(x.lambda)))
    /\ pc = "small" =>
          /\ smp.nu = pos - smp.entry
          /\ \A i \in 1..(pos - smp.entry) :
                dgt(TapeProduct(smp.entry, i), exp(dneg(cur.lambda)))

\* A small-sampler call has returned 2 after three draws.
KnuthStopsAtFirstCrossingReached ==
    \E x \in Samples : /\ x.s.sampler = <<"small">>
                       /\ x.s.end - x.s.entry = 3
                       /\ x.s.ret = U32(2)

\* C10: an iteration of poisson_distribution_large draws u first and, only
\* when the candidate n is not negative, v next; a call that returns after R1
\* rejections on n < 0 and R2 on the acceptance test has consumed
\* R1 + 2 R2 + 2 uniform draws, each from a fresh position.
LargeDrawAccounting ==
    /\ \A x \in Samples : x.s.sampler = <<"large">> =>
          /\ x.s.nu = x.s.r1 + 2 * x.s.r2 + 2
          /\ x.s.nz = 0
          /\ x.s.end - x.s.entry = x.s.nu
    /\ pc = "large" =>
          /\ smp.nu = smp.r1 + 2 * smp.r2
          /\ smp.nz = 0
          /\ pos - smp.entry = smp.nu
          /\ frame.drawn # <<>> =>
                /\ Len(frame.drawn) = (IF frame.n < 0 THEN 1 ELSE 2)
                /\ frame.drawn[Len(frame.drawn)] = pos
                /\ frame.drawn[1] = pos - Len(frame.drawn) + 1
                /\ frame.u = rocrand_uniform_double(tape[frame.drawn[1]])
                /\ Len(frame.drawn) = 2 =>
                      frame.v = rocrand_uniform_double(tape[frame.drawn[2]])

\* A large-sampler call has returned after a rejection on n < 0, for which
\* it drew no v.
LargeDrawAccountingReached ==
    \E x \in Samples : /\ x.s.sampler = <<"large">>
                       /\ x.s.r1 >= 1
                       /\ x.s.nu = x.s.r1 + 2

\* The candidate of an iteration of the large sampler that drew u, and whether
\* the acceptance test y + log(v / t^2) <= k + n log(lambda) - log_factorial(n)
\* passes it with the second draw v, each computed from lambda and the draws.
Candidate(lambda, u) ==
    LET e == LargeEntry(lambda)
    IN  floor(dadd(ddiv(dsub(e.alpha, log(ddiv(dsub(One, u), u))), e.beta), Half))

Accepted(lambda, u, v) ==
    LET e   == LargeEntry(lambda)
        x   == ddiv(dsub(e.alpha, log(ddiv(dsub(One, u), u))), e.beta)
        n   == Candidate(lambda, u)
        y   == dsub(e.alpha, dmul(e.beta, x))
        t   == dadd(One, exp(y))
        lf  == IF n <= 1 THEN Zero ELSE lgamma(FromInt(n + 1))
        lhs == dadd(y, log(ddiv(v, dmul(t, t))))
        rhs == dsub(dadd(e.k, dmul(FromInt(n), e.log_lambda)), lf)
    IN  n >= 0 /\ dle(lhs, rhs)

\* C11: a value the large sampler returns is the candidate n of its last
\* iteration, with n >= 0 and the acceptance test passed by that iteration's
\* draws u and v; an iteration after which the loop goes on had n < 0 or
\* failed the test; and c, beta, alpha, k, log_lambda keep their entry values
\* through the call.
LargeReturnsAccepted ==
    /\ \A x \in Samples : x.s.sampler = <<"large">> =>
          LET u == rocrand_uniform_double(tape[x.s.end - 1])
              v == rocrand_uniform_double(tape[x.s.end])
          IN  /\ x.s.end - x.s.entry >= 2
              /\ Candidate(x.lambda, u) >= 0
              /\ x.s.val = Candidate(x.lambda, u)
              /\ x.s.ret = U32(x.s.val)
              /\ Accepted(x.lambda, u, v)
    /\ pc = "large" =>
          /\ \A h \in {"c", "beta", "alpha", "k", "log_lambda"} :
                frame[h] = LargeEntry(cur.lambda)[h]
          /\ frame.drawn # <<>> =>
                LET u == rocrand_uniform_double(tape[frame.drawn[1]])
                IN  IF Len(frame.drawn) = 1
                    THEN Candidate(cur.lambda, u) < 0
                    ELSE ~Accepted(cur.lambda, u,
                                   rocrand_uniform_double(tape[frame.drawn[2]]))

\* A large-sampler call has returned a candidate after the acceptance test
\* rejected an earlier one.
LargeReturnsAcceptedReached ==
    \E x \in Samples : /\ x.s.sampler = <<"large">>
                       /\ x.s.r2 >= 1
                       /\ x.s.val > 0
====
